---- MODULE Spec2Model ----
(***************************************************************************)
(* A state-machine model of quickff's Program class (src/lib/program.py):  *)
(* the trajectory cache (generate_trajectories, plot_pt), the per-IC       *)
(* harmonic estimation (estimate_from_pt), the Hessian refinement          *)
(* (refine_cost) and the driver (run).                                     *)
(*                                                                         *)
(* Strings of the program whose characters matter (IC kind-names, which    *)
(* are sorted and tested with startswith) are sequences of one-character   *)
(* strings.                                                                *)
(***************************************************************************)
EXTENDS Integers, Sequences, FiniteSets, TLC

\* ------------------------------------------------------------------ bounds

\* Number of IC instances of the bond kind in system.ics.
NumBond == 2

\* Number of public-method calls a driver makes on one Program object.
MaxCalls == 4

\* ------------------------------------------------------- program constants

\* steps=51 in plot_pt's call of pert_theory.generate.
PlotSteps == 51

\* generate_trajectories calls pert_theory.generate(ic) without steps; 0
\* stands for "the callee's default".
DefaultSteps == 0

\* fns_traj=None: no cache path configured.
None == <<>>

\* A configured cache path.
TrajPath == <<"t", "r", "a", "j">>

\* ------------------------------------------------------------- the catalog

Bend == <<"b", "e", "n", "d">>
Bond == <<"b", "o", "n", "d">>
Dihed == <<"d", "i", "h", "e", "d">>

\* self.model.val.pot.terms.keys()
TermKeys == {Bond, Dihed, Bend}

\* len(self.system.ics[icname])
NumICs(icname) == IF icname = Bond THEN NumBond ELSE 1

\* ic.name of the i-th instance of a kind: unique per instance.
ICName(icname, i) == [kind |-> icname, i |-> i]

\* self.system.ics[icname]: the ordered IC instances of a kind.
ICs(icname) == [i \in 1..NumICs(icname) |-> ICName(icname, i)]

\* Every ic.name of the catalog.
AllICNames == UNION {{ICs(k)[i] : i \in 1..NumICs(k)} : k \in TermKeys}

\* ---------------------------------------------------------------- strings

\* ord() of the characters that occur in kind-names.
Ord(c) ==
    CASE c = "/" -> 47
      [] c = "b" -> 98
      [] c = "d" -> 100
      [] c = "e" -> 101
      [] c = "h" -> 104
      [] c = "i" -> 105
      [] c = "n" -> 110
      [] c = "o" -> 111

\* Python's str comparison a < b: lexicographic, a proper prefix is smaller.
RECURSIVE StrLess(_, _)
StrLess(a, b) ==
    IF b = <<>> THEN FALSE
    ELSE IF a = <<>> THEN TRUE
    ELSE IF Head(a) = Head(b) THEN StrLess(Tail(a), Tail(b))
    ELSE Ord(Head(a)) < Ord(Head(b))

\* sorted(keys): ascending, by repeatedly taking the minimum.
RECURSIVE Sorted(_)
Sorted(S) ==
    IF S = {} THEN <<>>
    ELSE LET m == CHOOSE x \in S : \A y \in S \ {x} : StrLess(x, y)
         IN <<m>> \o Sorted(S \ {m})

\* s.startswith(prefix)
StartsWith(s, prefix) ==
    /\ Len(s) >= Len(prefix)
    /\ SubSeq(s, 1, Len(prefix)) = prefix

\* Variant of SortedKeys: the keys in the dict's own order, not sorted.
UnsortedKeys == <<Bond, Dihed, Bend>>

\* sorted(self.model.val.pot.terms.keys())
SortedKeys == Sorted(TermKeys)

\* Variant of Skipped: the dihedral test is left out.
SkippedNever(skip_dihedrals, icname) == FALSE

\* skip_dihedrals and icname.startswith('dihed')
Skipped(skip_dihedrals, icname) ==
    skip_dihedrals /\ StartsWith(icname, <<"d", "i", "h", "e", "d">>)

\* ------------------------------------------------------------ dictionaries

\* {}
EmptyDict == [x \in {} |-> x]

\* d[k] = v
Put(d, k, v) == [x \in DOMAIN d \cup {k} |-> IF x = k THEN v ELSE d[x]]

\* --------------------------------------------------------------- the store

\* The order in which a dict's items are pickled: the dict's iteration order,
\* fixed here as the catalog's order.
RECURSIVE KeyOrder(_)
KeyOrder(S) ==
    IF S = {} THEN <<>>
    ELSE LET m == CHOOSE x \in S : \A y \in S \ {x} :
                     \/ StrLess(x.kind, y.kind)
                     \/ x.kind = y.kind /\ x.i < y.i
         IN <<m>> \o KeyOrder(S \ {m})

\* cPickle.dump(trajectories, f): the dict as a sequence of (key, value) items.
Dump(trajectories) ==
    LET keys == KeyOrder(DOMAIN trajectories)
    IN [j \in 1..Len(keys) |-> <<keys[j], trajectories[keys[j]]>>]

\* cPickle.load(f): the dict rebuilt from the items, a later item winning.
Load(data) ==
    [k \in {data[j][1] : j \in 1..Len(data)} |->
        LET last == CHOOSE j \in 1..Len(data) :
                        /\ data[j][1] = k
                        /\ \A l \in (j + 1)..Len(data) : data[l][1] # k
        IN data[last][2]]

\* No file at the cache path.
NoFile == [exists |-> FALSE, valid |-> FALSE, data |-> <<>>]

\* A file at the cache path whose content cPickle.load rejects.
CorruptFile == [exists |-> TRUE, valid |-> FALSE, data |-> <<>>]

\* The file left by open(fns_traj, 'w') and cPickle.dump(trajectories, f).
Written(trajectories) ==
    [exists |-> TRUE, valid |-> TRUE, data |-> Dump(trajectories)]

\* A trajectory returned by pert_theory.generate(ic, steps).
Trajectory(name, steps) == [ic |-> name, steps |-> steps]

\* ------------------------------------------------- external collaborators

\* pert_theory.estimate(ic, trajectory): the force constant of the fit.
EstimateK(name, trajectory) ==
    2 * name.i + (IF trajectory.steps = PlotSteps THEN 1 ELSE 0)

\* pert_theory.estimate(ic, trajectory): the equilibrium value of the fit.
EstimateQ0(name, trajectory) == name.i

\* cost.estimate(): one refined force constant per kind of the model's
\* table; d is the change the least-squares fit makes.
CostEstimate(tab, d) == [j \in 1..Len(tab) |-> tab[j].ks[1] + d]

\* model.val.update_fcs(fcs): the force constants of every kind replaced,
\* the equilibrium values kept.
UpdateFcs(tab, fcs) ==
    [j \in 1..Len(tab) |->
        [name |-> tab[j].name,
         ks |-> [i \in 1..Len(tab[j].ks) |-> fcs[j]],
         q0s |-> tab[j].q0s]]

\* FFTable(): no entry.
EmptyTable == <<>>

\* The kind-names that have an entry in an FFTable.
TableNames(tab) == {tab[j].name : j \in 1..Len(tab)}

\* ------------------------------------------------------------------- state

VARIABLES
    fns_traj,       \* self.fns_traj
    file,           \* the file at the cache path
    calls,          \* public-method calls made so far
    pc,             \* position of the running call, "idle" between calls
    op,             \* the public method running (or last run)
    inRun,          \* the method runs as a stage of run()
    skip_dihedrals, \* the argument skip_dihedrals of the running method
    icname,         \* the argument icname of plot_pt
    trajectories,   \* the local (or argument) trajectories
    kpos,           \* position of the loop over sorted kind-names
    ipos,           \* position of the loop over the IC instances
    ks,             \* the DataArray ks of the kind being estimated
    q0s,            \* the DataArray q0s of the kind being estimated
    ff,             \* the local FFTable of estimate_from_pt
    ffModel,        \* the parameters held by self.model.val
    fftab,          \* the table last returned by estimate_from_pt/refine_cost
    genLog,         \* ic.name of every pert_theory.generate call of this call
    interrupted,    \* ic.name of the generate calls a KeyboardInterrupt ended
    estLog,         \* ic.name of every pert_theory.estimate call of this call
    writes,         \* writes of the store file made by this call
    plotted,        \* ic.name of every plot/write export of this call
    stages,         \* the stages run() has entered, in order
    outcome,        \* "running", "ok", or the exception the call raised
    returned,       \* the trajectories last returned by generate_trajectories
    startFile,      \* the file at the cache path when this call began
    prev            \* the call before this one: op, outcome, startFile, returned

vars == <<fns_traj, file, calls, pc, op, inRun, skip_dihedrals, icname,
          trajectories, kpos, ipos, ks, q0s, ff, ffModel, fftab, genLog,
          interrupted, estLog, writes, plotted, stages, outcome, returned,
          startFile, prev>>

\* Program.__init__: a new Program; the cache path may hold no file or a
\* file that is no pickle.
Init ==
    /\ fns_traj \in {None, TrajPath}
    /\ file \in IF fns_traj = None THEN {NoFile} ELSE {NoFile, CorruptFile}
    /\ calls = 0
    /\ pc = "idle"
    /\ op = "__init__"
    /\ inRun = FALSE
    /\ skip_dihedrals = TRUE
    /\ icname = Bond
    /\ trajectories = EmptyDict
    /\ kpos = 1
    /\ ipos = 1
    /\ ks = <<>>
    /\ q0s = <<>>
    /\ ff = EmptyTable
    /\ ffModel = [set |-> FALSE, tab |-> EmptyTable]
    /\ fftab = EmptyTable
    /\ genLog = <<>>
    /\ interrupted = {}
    /\ estLog = <<>>
    /\ writes = 0
    /\ plotted = <<>>
    /\ stages = <<>>
    /\ outcome = "ok"
    /\ returned = EmptyDict
    /\ startFile = file
    /\ prev = [op |-> "__init__", outcome |-> "ok", startFile |-> file,
               returned |-> EmptyDict]

\* ------------------------------------------------------------ call frames

\* The per-call bookkeeping at the entry of a public method.
Enter(method) ==
    /\ pc = "idle"
    /\ calls < MaxCalls
    /\ calls' = calls + 1
    /\ op' = method
    /\ prev' = [op |-> op, outcome |-> outcome, startFile |-> startFile,
                returned |-> returned]
    /\ startFile' = file
    /\ outcome' = "running"
    /\ genLog' = <<>>
    /\ interrupted' = {}
    /\ estLog' = <<>>
    /\ writes' = 0
    /\ plotted' = <<>>
    /\ kpos' = 1
    /\ ipos' = 1
    /\ ks' = <<>>
    /\ q0s' = <<>>
    /\ ff' = EmptyTable

\* An exception leaves the running method and, uncaught by run, the call.
Raise(exception) ==
    /\ pc' = "idle"
    /\ outcome' = exception

\* Variant of CacheHit: the existing store file is never looked at.
CacheHitNever == FALSE

\* if self.fns_traj is not None: if os.path.isfile(self.fns_traj):
CacheHit == fns_traj # None /\ file.exists

\* ------------------------------------------------- generate_trajectories

\* A driver calls generate_trajectories(skip_dihedrals).
CallGenerateTrajectories ==
    \E skip \in BOOLEAN :
        /\ Enter("generate_trajectories")
        /\ pc' = "gen_check"
        /\ inRun' = FALSE
        /\ skip_dihedrals' = skip
        /\ trajectories' = EmptyDict
        /\ stages' = <<>>
        /\ UNCHANGED <<fns_traj, file, icname, ffModel, fftab, returned>>

\* Variant of ReturnTrajectories: run() enters refine_cost() right after
\* generate_trajectories, before estimate_from_pt.
ReturnTrajectoriesThenRefine(t) ==
    /\ returned' = t
    /\ kpos' = 1
    /\ ipos' = 1
    /\ IF inRun
       THEN /\ pc' = "refine"
            /\ stages' = Append(stages, "refine")
            /\ outcome' = outcome
       ELSE /\ pc' = "idle"
            /\ stages' = stages
            /\ outcome' = "ok"

\* return trajectories: to the driver, or to run(), which stores them in
\* self.trajectories and enters estimate_from_pt(self.trajectories).
ReturnTrajectories(t) ==
    /\ returned' = t
    /\ kpos' = 1
    /\ ipos' = 1
    /\ IF inRun
       THEN /\ pc' = "est_loop"
            /\ stages' = Append(stages, "estimate")
            /\ outcome' = outcome
       ELSE /\ pc' = "idle"
            /\ stages' = stages
            /\ outcome' = "ok"

\* Variant of GenLoadCache: a store that cannot be loaded is dropped and
\* the trajectories are generated from scratch.
GenLoadCacheRegenerates ==
    /\ pc = "gen_check"
    /\ CacheHit
    /\ IF file.valid
       THEN /\ trajectories' = Load(file.data)
            /\ ReturnTrajectories(Load(file.data))
       ELSE /\ pc' = "gen_loop"
            /\ UNCHANGED <<trajectories, returned, kpos, ipos, stages,
                           outcome>>
    /\ UNCHANGED <<fns_traj, file, calls, op, inRun, skip_dihedrals, icname,
                   ks, q0s, ff, ffModel, fftab, genLog, interrupted, estLog,
                   writes, plotted, startFile, prev>>

\* The store file exists: it is loaded and returned, or the load raises.
GenLoadCache ==
    /\ pc = "gen_check"
    /\ CacheHit
    /\ IF file.valid
       THEN /\ trajectories' = Load(file.data)
            /\ ReturnTrajectories(Load(file.data))
       ELSE /\ Raise("UnpicklingError")
            /\ UNCHANGED <<trajectories, returned, kpos, ipos, stages>>
    /\ UNCHANGED <<fns_traj, file, calls, op, inRun, skip_dihedrals, icname,
                   ks, q0s, ff, ffModel, fftab, genLog, interrupted, estLog,
                   writes, plotted, startFile, prev>>

\* No path or no file: trajectories = {} and the loop over the kinds begins.
GenFromScratch ==
    /\ pc = "gen_check"
    /\ ~CacheHit
    /\ pc' = "gen_loop"
    /\ trajectories' = EmptyDict
    /\ kpos' = 1
    /\ ipos' = 1
    /\ UNCHANGED <<fns_traj, file, calls, op, inRun, skip_dihedrals, icname,
                   ks, q0s, ff, ffModel, fftab, genLog, interrupted, estLog,
                   writes, plotted, stages, outcome, returned, startFile,
                   prev>>

\* The loop's position after the IC at ipos of the kind at kpos.
NextK(k, i) == IF i >= NumICs(SortedKeys[k]) THEN k + 1 ELSE k
NextI(k, i) == IF i >= NumICs(SortedKeys[k]) THEN 1 ELSE i + 1

\* if skip_dihedrals and icname.startswith('dihed'): continue
GenSkipKind ==
    /\ pc = "gen_loop"
    /\ kpos <= Len(SortedKeys)
    /\ Skipped(skip_dihedrals, SortedKeys[kpos])
    /\ kpos' = kpos + 1
    /\ ipos' = 1
    /\ UNCHANGED <<fns_traj, file, calls, pc, op, inRun, skip_dihedrals,
                   icname, trajectories, ks, q0s, ff, ffModel, fftab, genLog,
                   interrupted, estLog, writes, plotted, stages, outcome,
                   returned, startFile, prev>>

\* trajectories[ic.name] = self.pert_theory.generate(ic)
GenGenerate ==
    /\ pc = "gen_loop"
    /\ kpos <= Len(SortedKeys)
    /\ ~Skipped(skip_dihedrals, SortedKeys[kpos])
    /\ LET name == ICs(SortedKeys[kpos])[ipos]
       IN /\ genLog' = Append(genLog, name)
          /\ trajectories' =
                Put(trajectories, name, Trajectory(name, DefaultSteps))
    /\ kpos' = NextK(kpos, ipos)
    /\ ipos' = NextI(kpos, ipos)
    /\ UNCHANGED <<fns_traj, file, calls, pc, op, inRun, skip_dihedrals,
                   icname, ks, q0s, ff, ffModel, fftab, interrupted, estLog,
                   writes, plotted, stages, outcome, returned, startFile,
                   prev>>

\* pert_theory.generate(ic) is ended by a KeyboardInterrupt: nothing in
\* generate_trajectories catches it.
GenInterrupted ==
    /\ pc = "gen_loop"
    /\ kpos <= Len(SortedKeys)
    /\ ~Skipped(skip_dihedrals, SortedKeys[kpos])
    /\ LET name == ICs(SortedKeys[kpos])[ipos]
       IN /\ genLog' = Append(genLog, name)
          /\ interrupted' = interrupted \cup {name}
    /\ Raise("KeyboardInterrupt")
    /\ UNCHANGED <<fns_traj, file, calls, op, inRun, skip_dihedrals, icname,
                   trajectories, kpos, ipos, ks, q0s, ff, ffModel, fftab,
                   estLog, writes, plotted, stages, returned, startFile,
                   prev>>

\* After the loop: the trajectories are pickled to the path, if one is
\* configured, and returned.
GenWrite ==
    /\ pc = "gen_loop"
    /\ kpos > Len(SortedKeys)
    /\ IF fns_traj # None
       THEN file' = Written(trajectories) /\ writes' = writes + 1
       ELSE UNCHANGED <<file, writes>>
    /\ ReturnTrajectories(trajectories)
    /\ UNCHANGED <<fns_traj, calls, op, inRun, skip_dihedrals, icname,
                   trajectories, ks, q0s, ff, ffModel, fftab, genLog,
                   interrupted, estLog, plotted, startFile, prev>>

\* ------------------------------------------------------- estimate_from_pt

\* A driver calls estimate_from_pt(trajectories, skip_dihedrals) with the
\* trajectories it got from generate_trajectories.
CallEstimateFromPt ==
    \E skip \in BOOLEAN :
        /\ op = "generate_trajectories"
        /\ outcome = "ok"
        /\ Enter("estimate_from_pt")
        /\ pc' = "est_loop"
        /\ inRun' = FALSE
        /\ skip_dihedrals' = skip
        /\ trajectories' = returned
        /\ stages' = <<>>
        /\ UNCHANGED <<fns_traj, file, icname, ffModel, fftab, returned>>

\* if skip_dihedrals and icname.startswith('dihed'): continue
EstSkipKind ==
    /\ pc = "est_loop"
    /\ kpos <= Len(SortedKeys)
    /\ Skipped(skip_dihedrals, SortedKeys[kpos])
    /\ kpos' = kpos + 1
    /\ ipos' = 1
    /\ UNCHANGED <<fns_traj, file, calls, pc, op, inRun, skip_dihedrals,
                   icname, trajectories, ks, q0s, ff, ffModel, fftab, genLog,
                   interrupted, estLog, writes, plotted, stages, outcome,
                   returned, startFile, prev>>

\* k, q0 = self.pert_theory.estimate(ic, trajectories[ic.name]);
\* ks.append(k); q0s.append(q0)
EstEstimate ==
    /\ pc = "est_loop"
    /\ kpos <= Len(SortedKeys)
    /\ ~Skipped(skip_dihedrals, SortedKeys[kpos])
    /\ ipos <= NumICs(SortedKeys[kpos])
    /\ LET name == ICs(SortedKeys[kpos])[ipos]
       IN /\ name \in DOMAIN trajectories
          /\ estLog' = Append(estLog, name)
          /\ ks' = Append(ks, EstimateK(name, trajectories[name]))
          /\ q0s' = Append(q0s, EstimateQ0(name, trajectories[name]))
    /\ ipos' = ipos + 1
    /\ UNCHANGED <<fns_traj, file, calls, pc, op, inRun, skip_dihedrals,
                   icname, trajectories, kpos, ff, ffModel, fftab, genLog,
                   interrupted, writes, plotted, stages, outcome, returned,
                   startFile, prev>>

\* trajectories[ic.name] raises KeyError: the store holds no trajectory of
\* this IC.
EstKeyError ==
    /\ pc = "est_loop"
    /\ kpos <= Len(SortedKeys)
    /\ ~Skipped(skip_dihedrals, SortedKeys[kpos])
    /\ ipos <= NumICs(SortedKeys[kpos])
    /\ ICs(SortedKeys[kpos])[ipos] \notin DOMAIN trajectories
    /\ Raise("KeyError")
    /\ UNCHANGED <<fns_traj, file, calls, op, inRun, skip_dihedrals, icname,
                   trajectories, kpos, ipos, ks, q0s, ff, ffModel, fftab,
                   genLog, interrupted, estLog, writes, plotted, stages,
                   returned, startFile, prev>>

\* self.pert_theory.estimate raises (too few samples for a fit): nothing in
\* estimate_from_pt catches it.
EstEstimateFails ==
    /\ pc = "est_loop"
    /\ kpos <= Len(SortedKeys)
    /\ ~Skipped(skip_dihedrals, SortedKeys[kpos])
    /\ ipos <= NumICs(SortedKeys[kpos])
    /\ LET name == ICs(SortedKeys[kpos])[ipos]
       IN /\ name \in DOMAIN trajectories
          /\ estLog' = Append(estLog, name)
    /\ Raise("InsufficientDataError")
    /\ UNCHANGED <<fns_traj, file, calls, op, inRun, skip_dihedrals, icname,
                   trajectories, kpos, ipos, ks, q0s, ff, ffModel, fftab,
                   genLog, interrupted, writes, plotted, stages, returned,
                   startFile, prev>>

\* Variant of EstAdd: the DataArrays are created once, before the loop over
\* the kinds, and every kind appends to them.
EstAddSharedArrays ==
    /\ pc = "est_loop"
    /\ kpos <= Len(SortedKeys)
    /\ ~Skipped(skip_dihedrals, SortedKeys[kpos])
    /\ ipos > NumICs(SortedKeys[kpos])
    /\ ff' = Append(ff, [name |-> SortedKeys[kpos], ks |-> ks, q0s |-> q0s])
    /\ kpos' = kpos + 1
    /\ ipos' = 1
    /\ UNCHANGED <<fns_traj, file, calls, pc, op, inRun, skip_dihedrals,
                   icname, trajectories, ks, q0s, ffModel, fftab, genLog,
                   interrupted, estLog, writes, plotted, stages, outcome,
                   returned, startFile, prev>>

\* Variant of EstAdd: the model is updated with the table after every add.
EstAddUpdatesModel ==
    /\ pc = "est_loop"
    /\ kpos <= Len(SortedKeys)
    /\ ~Skipped(skip_dihedrals, SortedKeys[kpos])
    /\ ipos > NumICs(SortedKeys[kpos])
    /\ ff' = Append(ff, [name |-> SortedKeys[kpos], ks |-> ks, q0s |-> q0s])
    /\ ffModel' = [set |-> TRUE, tab |-> ff']
    /\ ks' = <<>>
    /\ q0s' = <<>>
    /\ kpos' = kpos + 1
    /\ ipos' = 1
    /\ UNCHANGED <<fns_traj, file, calls, pc, op, inRun, skip_dihedrals,
                   icname, trajectories, fftab, genLog, interrupted, estLog,
                   writes, plotted, stages, outcome, returned, startFile,
                   prev>>

\* ff.add(icname, ks, q0s), which asserts that the name is new; the next
\* kind starts with fresh DataArrays.
EstAdd ==
    /\ pc = "est_loop"
    /\ kpos <= Len(SortedKeys)
    /\ ~Skipped(skip_dihedrals, SortedKeys[kpos])
    /\ ipos > NumICs(SortedKeys[kpos])
    /\ IF SortedKeys[kpos] \in TableNames(ff)
       THEN /\ Raise("AssertionError")
            /\ UNCHANGED <<ff, ks, q0s, kpos, ipos>>
       ELSE /\ ff' = Append(ff, [name |-> SortedKeys[kpos], ks |-> ks,
                                 q0s |-> q0s])
            /\ ks' = <<>>
            /\ q0s' = <<>>
            /\ kpos' = kpos + 1
            /\ ipos' = 1
            /\ UNCHANGED <<pc, outcome>>
    /\ UNCHANGED <<fns_traj, file, calls, op, inRun, skip_dihedrals, icname,
                   trajectories, ffModel, fftab, genLog, interrupted, estLog,
                   writes, plotted, stages, returned, startFile, prev>>

\* self.model.val.update_fftable(ff); return ff: to the driver, or to
\* run(), which enters refine_cost().
EstUpdate ==
    /\ pc = "est_loop"
    /\ kpos > Len(SortedKeys)
    /\ ffModel' = [set |-> TRUE, tab |-> ff]
    /\ fftab' = ff
    /\ IF inRun
       THEN /\ pc' = "refine"
            /\ stages' = Append(stages, "refine")
            /\ outcome' = outcome
       ELSE /\ pc' = "idle"
            /\ stages' = stages
            /\ outcome' = "ok"
    /\ UNCHANGED <<fns_traj, file, calls, op, inRun, skip_dihedrals, icname,
                   trajectories, kpos, ipos, ks, q0s, ff, genLog,
                   interrupted, estLog, writes, plotted, returned, startFile,
                   prev>>

\* ------------------------------------------------------------ refine_cost

\* A driver calls refine_cost() on a model that holds stage-1 parameters.
CallRefineCost ==
    /\ ffModel.set
    /\ Enter("refine_cost")
    /\ pc' = "refine"
    /\ inRun' = FALSE
    /\ stages' = <<>>
    /\ UNCHANGED <<fns_traj, file, skip_dihedrals, icname, trajectories,
                   ffModel, fftab, returned>>

\* Variant of RefineCost: the refined table is installed with update_fftable
\* from a table whose equilibrium values were not filled in.
RefineCostResetsEquilibria ==
    /\ pc = "refine"
    /\ \E d \in {0, 1} :
          LET fcs == CostEstimate(ffModel.tab, d)
              new == UpdateFcs(ffModel.tab, fcs)
              reset == [j \in 1..Len(new) |->
                           [new[j] EXCEPT !.q0s =
                               [i \in 1..Len(new[j].q0s) |-> 0]]]
          IN /\ ffModel' = [set |-> TRUE, tab |-> reset]
             /\ fftab' = reset
    /\ pc' = "idle"
    /\ outcome' = "ok"
    /\ UNCHANGED <<fns_traj, file, calls, op, inRun, skip_dihedrals, icname,
                   trajectories, kpos, ipos, ks, q0s, ff, genLog,
                   interrupted, estLog, writes, plotted, stages, returned,
                   startFile, prev>>

\* fcs = self.cost.estimate(); self.model.val.update_fcs(fcs);
\* fftab = self.model.val.get_fftable(); return fftab
RefineCost ==
    /\ pc = "refine"
    /\ \E d \in {0, 1} :
          LET fcs == CostEstimate(ffModel.tab, d)
          IN /\ ffModel' = [set |-> TRUE, tab |-> UpdateFcs(ffModel.tab, fcs)]
             /\ fftab' = UpdateFcs(ffModel.tab, fcs)
    /\ pc' = "idle"
    /\ outcome' = "ok"
    /\ UNCHANGED <<fns_traj, file, calls, op, inRun, skip_dihedrals, icname,
                   trajectories, kpos, ipos, ks, q0s, ff, genLog,
                   interrupted, estLog, writes, plotted, stages, returned,
                   startFile, prev>>

\* Variant of RefineCostFails: the model's force constants are updated
\* before the failure surfaces.
RefineCostFailsAfterUpdate ==
    /\ pc = "refine"
    /\ ffModel' = [set |-> TRUE,
                   tab |-> UpdateFcs(ffModel.tab, CostEstimate(ffModel.tab, 1))]
    /\ Raise("CostError")
    /\ UNCHANGED <<fns_traj, file, calls, op, inRun, skip_dihedrals, icname,
                   trajectories, kpos, ipos, ks, q0s, ff, fftab, genLog,
                   interrupted, estLog, writes, plotted, stages, returned,
                   startFile, prev>>

\* self.cost.estimate() raises: update_fcs is not reached.
RefineCostFails ==
    /\ pc = "refine"
    /\ Raise("CostError")
    /\ UNCHANGED <<fns_traj, file, calls, op, inRun, skip_dihedrals, icname,
                   trajectories, kpos, ipos, ks, q0s, ff, ffModel, fftab,
                   genLog, interrupted, estLog, writes, plotted, stages,
                   returned, startFile, prev>>

\* -------------------------------------------------------------------- run

\* run(): determine_dihedral_potentials, then generate_trajectories() with
\* its default skip_dihedrals=True.
CallRun ==
    /\ Enter("run")
    /\ pc' = "gen_check"
    /\ inRun' = TRUE
    /\ skip_dihedrals' = TRUE
    /\ trajectories' = EmptyDict
    /\ stages' = <<"dihedrals", "generate">>
    /\ UNCHANGED <<fns_traj, file, icname, ffModel, fftab, returned>>

\* ---------------------------------------------------------------- plot_pt

\* A driver calls plot_pt(icname).
CallPlotPt ==
    \E name \in TermKeys :
        /\ Enter("plot_pt")
        /\ pc' = "plot_load"
        /\ inRun' = FALSE
        /\ icname' = name
        /\ trajectories' = EmptyDict
        /\ stages' = <<>>
        /\ UNCHANGED <<fns_traj, file, skip_dihedrals, ffModel, fftab,
                       returned>>

\* Variant of PlotLoad: the store file is checked but its entries are not
\* taken over.
PlotLoadIgnoresStore ==
    /\ pc = "plot_load"
    /\ IF CacheHit /\ ~file.valid
       THEN /\ Raise("UnpicklingError")
            /\ UNCHANGED trajectories
       ELSE /\ trajectories' = EmptyDict
            /\ pc' = "plot_loop"
            /\ outcome' = outcome
    /\ ipos' = 1
    /\ UNCHANGED <<fns_traj, file, calls, op, inRun, skip_dihedrals, icname,
                   kpos, ks, q0s, ff, ffModel, fftab, genLog, interrupted,
                   estLog, writes, plotted, stages, returned, startFile,
                   prev>>

\* trajectories = {}; the store file, if there is one, is loaded into it.
PlotLoad ==
    /\ pc = "plot_load"
    /\ IF CacheHit /\ ~file.valid
       THEN /\ Raise("UnpicklingError")
            /\ UNCHANGED trajectories
       ELSE /\ trajectories' = IF CacheHit THEN Load(file.data) ELSE EmptyDict
            /\ pc' = "plot_loop"
            /\ outcome' = outcome
    /\ ipos' = 1
    /\ UNCHANGED <<fns_traj, file, calls, op, inRun, skip_dihedrals, icname,
                   kpos, ks, q0s, ff, ffModel, fftab, genLog, interrupted,
                   estLog, writes, plotted, stages, returned, startFile,
                   prev>>

\* Variant of PlotRead: an IC found in the store is generated again.
PlotReadRegenerates ==
    /\ pc = "plot_loop"
    /\ ipos <= NumICs(icname)
    /\ ICs(icname)[ipos] \in DOMAIN trajectories
    /\ LET name == ICs(icname)[ipos]
       IN /\ genLog' = Append(genLog, name)
          /\ trajectories' =
                Put(trajectories, name, Trajectory(name, PlotSteps))
    /\ ipos' = ipos + 1
    /\ UNCHANGED <<fns_traj, file, calls, pc, op, inRun, skip_dihedrals,
                   icname, kpos, ks, q0s, ff, ffModel, fftab, interrupted,
                   estLog, writes, plotted, stages, outcome, returned,
                   startFile, prev>>

\* if ic.name in trajectories.keys(): already read.
PlotRead ==
    /\ pc = "plot_loop"
    /\ ipos <= NumICs(icname)
    /\ ICs(icname)[ipos] \in DOMAIN trajectories
    /\ ipos' = ipos + 1
    /\ UNCHANGED <<fns_traj, file, calls, pc, op, inRun, skip_dihedrals,
                   icname, trajectories, kpos, ks, q0s, ff, ffModel, fftab,
                   genLog, interrupted, estLog, writes, plotted, stages,
                   outcome, returned, startFile, prev>>

\* Variant of PlotGenerate: the store is pickled after every generated IC.
PlotGenerateWritesEach ==
    /\ pc = "plot_loop"
    /\ ipos <= NumICs(icname)
    /\ ICs(icname)[ipos] \notin DOMAIN trajectories
    /\ LET name == ICs(icname)[ipos]
       IN /\ genLog' = Append(genLog, name)
          /\ trajectories' =
                Put(trajectories, name, Trajectory(name, PlotSteps))
    /\ ipos' = ipos + 1
    /\ IF fns_traj # None
       THEN file' = Written(trajectories') /\ writes' = writes + 1
       ELSE UNCHANGED <<file, writes>>
    /\ UNCHANGED <<fns_traj, calls, pc, op, inRun, skip_dihedrals, icname,
                   kpos, ks, q0s, ff, ffModel, fftab, interrupted, estLog,
                   plotted, stages, outcome, returned, startFile, prev>>

\* trajectories[ic.name] = self.pert_theory.generate(ic, steps=51)
PlotGenerate ==
    /\ pc = "plot_loop"
    /\ ipos <= NumICs(icname)
    /\ ICs(icname)[ipos] \notin DOMAIN trajectories
    /\ LET name == ICs(icname)[ipos]
       IN /\ genLog' = Append(genLog, name)
          /\ trajectories' =
                Put(trajectories, name, Trajectory(name, PlotSteps))
    /\ ipos' = ipos + 1
    /\ UNCHANGED <<fns_traj, file, calls, pc, op, inRun, skip_dihedrals,
                   icname, kpos, ks, q0s, ff, ffModel, fftab, interrupted,
                   estLog, writes, plotted, stages, outcome, returned,
                   startFile, prev>>

\* Variant of PlotInterrupted: no handler, the KeyboardInterrupt leaves
\* plot_pt.
PlotInterruptedRaises ==
    /\ pc = "plot_loop"
    /\ ipos <= NumICs(icname)
    /\ ICs(icname)[ipos] \notin DOMAIN trajectories
    /\ LET name == ICs(icname)[ipos]
       IN /\ genLog' = Append(genLog, name)
          /\ interrupted' = interrupted \cup {name}
    /\ Raise("KeyboardInterrupt")
    /\ UNCHANGED <<fns_traj, file, calls, op, inRun, skip_dihedrals, icname,
                   trajectories, kpos, ipos, ks, q0s, ff, ffModel, fftab,
                   estLog, writes, plotted, stages, returned, startFile,
                   prev>>

\* Variant of PlotInterrupted: the KeyboardInterrupt ends the loop over the
\* ICs (a break in the handler).
PlotInterruptedBreaks ==
    /\ pc = "plot_loop"
    /\ ipos <= NumICs(icname)
    /\ ICs(icname)[ipos] \notin DOMAIN trajectories
    /\ LET name == ICs(icname)[ipos]
       IN /\ genLog' = Append(genLog, name)
          /\ interrupted' = interrupted \cup {name}
    /\ ipos' = NumICs(icname) + 1
    /\ UNCHANGED <<fns_traj, file, calls, pc, op, inRun, skip_dihedrals,
                   icname, trajectories, kpos, ks, q0s, ff, ffModel, fftab,
                   estLog, writes, plotted, stages, outcome, returned,
                   startFile, prev>>

\* except KeyboardInterrupt: the assignment did not happen and the loop goes
\* on with the next IC.
PlotInterrupted ==
    /\ pc = "plot_loop"
    /\ ipos <= NumICs(icname)
    /\ ICs(icname)[ipos] \notin DOMAIN trajectories
    /\ LET name == ICs(icname)[ipos]
       IN /\ genLog' = Append(genLog, name)
          /\ interrupted' = interrupted \cup {name}
    /\ ipos' = ipos + 1
    /\ UNCHANGED <<fns_traj, file, calls, pc, op, inRun, skip_dihedrals,
                   icname, trajectories, kpos, ks, q0s, ff, ffModel, fftab,
                   estLog, writes, plotted, stages, outcome, returned,
                   startFile, prev>>

\* After the loop: the trajectories are pickled to the path, if one is
\* configured.
PlotWrite ==
    /\ pc = "plot_loop"
    /\ ipos > NumICs(icname)
    /\ pc' = "plot_out"
    /\ IF fns_traj # None
       THEN file' = Written(trajectories) /\ writes' = writes + 1
       ELSE UNCHANGED <<file, writes>>
    /\ UNCHANGED <<fns_traj, calls, op, inRun, skip_dihedrals, icname,
                   trajectories, kpos, ipos, ks, q0s, ff, ffModel, fftab,
                   genLog, interrupted, estLog, plotted, stages, outcome,
                   returned, startFile, prev>>

\* The plot and the xyz export of every IC of the kind that has a
\* trajectory; plot_pt returns.
PlotOutput ==
    /\ pc = "plot_out"
    /\ plotted' = SelectSeq(ICs(icname), LAMBDA n : n \in DOMAIN trajectories)
    /\ pc' = "idle"
    /\ outcome' = "ok"
    /\ UNCHANGED <<fns_traj, file, calls, op, inRun, skip_dihedrals, icname,
                   trajectories, kpos, ipos, ks, q0s, ff, ffModel, fftab,
                   genLog, interrupted, estLog, writes, stages, returned,
                   startFile, prev>>

\* ----------------------------------------------------------- specification

Next ==
    \/ CallGenerateTrajectories
    \/ GenLoadCache
    \/ GenFromScratch
    \/ GenSkipKind
    \/ GenGenerate
    \/ GenInterrupted
    \/ GenWrite
    \/ CallEstimateFromPt
    \/ EstSkipKind
    \/ EstEstimate
    \/ EstKeyError
    \/ EstEstimateFails
    \/ EstAdd
    \/ EstUpdate
    \/ CallRefineCost
    \/ RefineCost
    \/ RefineCostFails
    \/ CallRun
    \/ CallPlotPt
    \/ PlotLoad
    \/ PlotRead
    \/ PlotGenerate
    \/ PlotInterrupted
    \/ PlotWrite
    \/ PlotOutput

Spec == Init /\ [][Next]_vars

\* ------------------------------------------------------------ vocabulary

\* The ic.name of every instance of a kind.
ICSet(kind) == {ICs(kind)[i] : i \in 1..NumICs(kind)}

\* The dict held by the store file now, and when the call began.
Stored == Load(file.data)
StoredAtStart == Load(startFile.data)

\* A cache path is configured and held no file when the call began.
FreshPath == fns_traj # None /\ ~startFile.exists

\* plot_pt has passed its write of the store.
PlotWritten == op = "plot_pt" /\ pc \in {"plot_out", "idle"} /\ writes = 1

\* The elements of a sequence.
Range(q) == {q[j] : j \in 1..Len(q)}

\* ---------------------------------------------------------------------- C1

\* C1 as stated: plot_pt on a fresh cache path, a cancellation while the
\* (N+1)-th IC of the kind is generated: the store written by the call holds
\* exactly the N trajectories of the ICs before the cancelled one. N is taken
\* from the first cancellation of the call.
C1_StoreHoldsExactlyFirstN ==
    (PlotWritten /\ FreshPath /\ interrupted # {}) =>
        LET first == CHOOSE n \in interrupted :
                         \A m \in interrupted : n.i <= m.i
        IN DOMAIN Stored = {ICs(icname)[j] : j \in 1..(first.i - 1)}

\* C1 amended: plot_pt on a fresh cache path with cancellations: the store
\* written by the call holds exactly the complete (51-step) trajectories of
\* the ICs of the kind whose generation was not cancelled, those after a
\* cancelled IC included, and no entry for a cancelled IC.
C1_StoreHoldsUninterrupted ==
    (PlotWritten /\ FreshPath /\ interrupted # {}) =>
        /\ file.exists /\ file.valid
        /\ Stored = [n \in ICSet(icname) \ interrupted |->
                        Trajectory(n, PlotSteps)]

\* A cancelled IC is followed by an IC whose trajectory is in the store.
C1_Witness ==
    /\ PlotWritten /\ FreshPath /\ pc = "idle"
    /\ \E n \in interrupted : \E m \in DOMAIN Stored : m.i > n.i

\* ---------------------------------------------------------------------- C2

\* C2: generate_trajectories (also as a stage of run) on a fresh cache path
\* ended by a cancellation: every trajectory completed before it is in the
\* store file when control is back at the caller.
C2_InterruptPersistsCompleted ==
    (/\ op \in {"generate_trajectories", "run"}
     /\ pc = "idle"
     /\ outcome = "KeyboardInterrupt"
     /\ FreshPath) =>
        \A n \in DOMAIN trajectories :
            /\ file.exists /\ file.valid
            /\ n \in DOMAIN Stored
            /\ Stored[n] = trajectories[n]

\* ---------------------------------------------------------------------- C3

\* C3: two generate_trajectories calls in a row on a configured path, the
\* first begun without a store file and returned normally: the second
\* returns what the first returned and calls pert_theory.generate not once,
\* whatever skip_dihedrals either call was given.
C3_SecondCallReturnsCache ==
    (/\ pc = "idle"
     /\ op = "generate_trajectories"
     /\ prev.op = "generate_trajectories"
     /\ prev.outcome = "ok"
     /\ ~prev.startFile.exists
     /\ fns_traj # None) =>
        /\ outcome = "ok"
        /\ returned = prev.returned
        /\ genLog = <<>>

\* The second call asked for the dihedrals (skip_dihedrals=False) that the
\* first call skipped, and still returned the first call's store.
C3_Witness ==
    /\ pc = "idle"
    /\ op = "generate_trajectories"
    /\ prev.op = "generate_trajectories"
    /\ prev.outcome = "ok"
    /\ ~prev.startFile.exists
    /\ fns_traj # None
    /\ ~skip_dihedrals
    /\ ICSet(Bond) \subseteq DOMAIN returned
    /\ ICSet(Dihed) \cap DOMAIN returned = {}

\* ---------------------------------------------------------------------- C4

\* C4: plot_pt for a kind with instances S on a store holding E of them,
\* no generation cancelled: pert_theory.generate is called for the ICs of
\* S \ E, once each and in catalog order; the store written holds every IC
\* of S, those of E as they were.
C4_MergeGeneratesOnlyMissing ==
    (PlotWritten /\ fns_traj # None /\ interrupted = {}) =>
        LET E == ICSet(icname) \cap DOMAIN StoredAtStart
        IN /\ genLog = SelectSeq(ICs(icname), LAMBDA n : n \notin E)
           /\ ICSet(icname) \subseteq DOMAIN Stored
           /\ \A n \in E : Stored[n] = StoredAtStart[n]

\* The store held some but not all ICs of the kind, and now holds all.
C4_Witness ==
    /\ PlotWritten /\ fns_traj # None /\ interrupted = {} /\ pc = "idle"
    /\ ICSet(icname) \cap DOMAIN StoredAtStart # {}
    /\ ~(ICSet(icname) \subseteq DOMAIN StoredAtStart)
    /\ ICSet(icname) \subseteq DOMAIN Stored

\* ---------------------------------------------------------------------- C5

\* C5: while run() is in estimate_from_pt, whatever calls left the store
\* file it began with, every IC of every non-skipped kind has a trajectory
\* among those generate_trajectories returned, and every kind already added
\* to the table had each of its ICs estimated exactly once.
C5_TrajectoriesCompleteBeforeEstimation ==
    (op = "run" /\ pc = "est_loop") =>
        \A k \in TermKeys :
            ~Skipped(skip_dihedrals, k) =>
                /\ ICSet(k) \subseteq DOMAIN trajectories
                /\ k \in TableNames(ff) =>
                     \A n \in ICSet(k) :
                        Cardinality({j \in 1..Len(estLog) : estLog[j] = n}) = 1

\* ---------------------------------------------------------------------- C6

\* C6: estimate_from_pt (also as a stage of run) in which the estimate of an
\* IC of one kind failed: every other non-skipped kind has its entry in the
\* table.
C6_OtherKindsStillEstimated ==
    (/\ op \in {"estimate_from_pt", "run"}
     /\ pc = "idle"
     /\ outcome = "InsufficientDataError") =>
        \A k \in TermKeys :
            (~Skipped(skip_dihedrals, k) /\ k # SortedKeys[kpos]) =>
                k \in TableNames(ff)

\* ---------------------------------------------------------------------- C7

\* C7: refine_cost in which cost.estimate() failed: the model holds the
\* table it held before, which is the one last returned; within run() that
\* is the table estimate_from_pt built and installed.
C7_FailedRefineKeepsStage1 ==
    (pc = "idle" /\ outcome = "CostError") =>
        /\ ffModel = [set |-> TRUE, tab |-> fftab]
        /\ op = "run" => fftab = ff

\* run() whose refinement failed after both non-skipped kinds were installed.
C7_Witness ==
    /\ pc = "idle" /\ outcome = "CostError" /\ op = "run"
    /\ TableNames(ffModel.tab) = {Bend, Bond}

\* ---------------------------------------------------------------------- C8

\* estimate_from_pt has returned its table ff (to the driver, or to run).
EstReturned ==
    \/ op = "estimate_from_pt" /\ pc = "idle" /\ outcome = "ok"
    \/ op = "run" /\ pc = "refine"

\* C8: after estimate_from_pt returns, every entry of the table has as many
\* force constants as equilibrium values, one per IC instance of its kind,
\* and with skip_dihedrals no kind starting with 'dihed' has an entry.
C8_TableLengths ==
    EstReturned =>
        /\ fftab = ff
        /\ \A j \in 1..Len(ff) :
              /\ Len(ff[j].ks) = NumICs(ff[j].name)
              /\ Len(ff[j].q0s) = NumICs(ff[j].name)
        /\ skip_dihedrals =>
              \A k \in TableNames(ff) : ~StartsWith(k, Dihed)

\* A table with the bend and the bond entries and, skipped, no dihedral.
C8_Witness ==
    /\ EstReturned
    /\ skip_dihedrals
    /\ TableNames(ff) = {Bend, Bond}
    /\ \E j \in 1..Len(ff) : ff[j].name = Bond /\ Len(ff[j].ks) = NumBond

\* ---------------------------------------------------------------------- C9

\* C9: generate_trajectories, plot_pt or run begun on a store file that
\* cannot be unpickled: the call raises the load's error, calls
\* pert_theory.generate not once and leaves the file as it was.
C9_CorruptStoreRaises ==
    (/\ op \in {"generate_trajectories", "plot_pt", "run"}
     /\ fns_traj # None
     /\ startFile.exists /\ ~startFile.valid) =>
        /\ pc \in {"gen_check", "plot_load", "idle"}
        /\ pc = "idle" => outcome = "UnpicklingError"
        /\ genLog = <<>>
        /\ writes = 0
        /\ file = startFile

\* Both methods have raised on the corrupt store, one after the other.
C9_Witness ==
    /\ pc = "idle"
    /\ op = "plot_pt" /\ outcome = "UnpicklingError"
    /\ prev.op = "generate_trajectories" /\ prev.outcome = "UnpicklingError"
    /\ file = CorruptFile

\* --------------------------------------------------------------------- C10

\* generate_trajectories is over, as a call or as the first stage of run.
GenOver ==
    /\ op \in {"generate_trajectories", "run"}
    /\ pc \notin {"gen_check", "gen_loop"}

\* C10 as stated, for the executions that return normally: with a cache
\* path configured, generate_trajectories and plot_pt have written the store
\* exactly once when they return.
C10_ExactlyOneWrite ==
    (/\ op \in {"generate_trajectories", "plot_pt"}
     /\ pc = "idle"
     /\ outcome = "ok"
     /\ fns_traj # None) =>
        writes = 1

\* C10 amended: with a cache path configured the store is written at most
\* once per execution, after the generation loop and with every trajectory
\* of the execution (loaded or generated) in it; until then the file is
\* untouched. plot_pt writes once unless the load raises;
\* generate_trajectories writes once when it found no store file and no
\* generation raised, and not at all otherwise.
C10_AtMostOneWriteAfterCollect ==
    (op \in {"generate_trajectories", "plot_pt", "run"} /\ fns_traj # None) =>
        /\ writes \in {0, 1}
        /\ writes = 0 => file = startFile
        /\ writes = 1 =>
              /\ file = Written(trajectories)
              /\ pc \notin {"gen_check", "gen_loop", "plot_load", "plot_loop"}
              /\ Range(genLog) \ interrupted \subseteq DOMAIN Stored
              /\ DOMAIN StoredAtStart \subseteq DOMAIN Stored
        /\ (op = "plot_pt" /\ pc \in {"plot_out", "idle"}) =>
              (writes = 1 <=> ~(startFile.exists /\ ~startFile.valid))
        /\ GenOver =>
              (writes = 1 <=> (~startFile.exists /\ interrupted = {}))

\* generate_trajectories returned the loaded store without writing it.
C10_Witness ==
    /\ op = "generate_trajectories" /\ pc = "idle" /\ outcome = "ok"
    /\ fns_traj # None
    /\ writes = 0
    /\ DOMAIN returned # {}

\* --------------------------------------------------------------------- C11

\* The kind-names and equilibrium values of a table, in its order.
Equilibria(tab) ==
    [j \in 1..Len(tab) |-> [name |-> tab[j].name, q0s |-> tab[j].q0s]]

\* C11: a refine_cost that returns changes, in the model, the force
\* constants only: the table it returns is the model's, and it has the kinds
\* and the equilibrium values the model held when refine_cost began (within
\* run(): those estimate_from_pt installed).
C11_RefineKeepsEquilibria ==
    [][(pc = "refine" /\ pc' = "idle" /\ outcome' = "ok") =>
          /\ fftab' = ffModel'.tab
          /\ Equilibria(ffModel'.tab) = Equilibria(ffModel.tab)
          /\ op = "run" => Equilibria(fftab') = Equilibria(ff)]_vars

\* run() has returned a table whose force constants differ from those of
\* stage 1 and whose equilibrium values are those of stage 1.
C11_Witness ==
    /\ op = "run" /\ pc = "idle" /\ outcome = "ok"
    /\ fftab # ff
    /\ Equilibria(fftab) = Equilibria(ff)
    /\ TableNames(fftab) = {Bend, Bond}

\* --------------------------------------------------------------------- C12

\* The kinds of the model's potential terms whose name starts with 'dihed',
\* and the others.
DihedKinds == {k \in TermKeys : StartsWith(k, Dihed)}
OtherKinds == TermKeys \ DihedKinds

\* generate_trajectories has returned normally, to the driver or to run().
GenReturned ==
    \/ op = "generate_trajectories" /\ pc = "idle" /\ outcome = "ok"
    \/ op = "run" /\ pc \in {"est_loop", "refine"}

\* C12: with skip_dihedrals and no store file, generate_trajectories calls
\* pert_theory.generate for every IC of every kind that does not start with
\* 'dihed' and for no other, and returns just their trajectories; an
\* estimate_from_pt that returns with skip_dihedrals has added exactly those
\* kinds; plot_pt for a dihedral kind calls pert_theory.generate for each of
\* its ICs that the store did not hold.
C12_DihedralPolicy ==
    /\ (GenReturned /\ skip_dihedrals /\ ~startFile.exists) =>
          /\ Range(genLog) = UNION {ICSet(k) : k \in OtherKinds}
          /\ DOMAIN returned = UNION {ICSet(k) : k \in OtherKinds}
    /\ (EstReturned /\ skip_dihedrals) => TableNames(ff) = OtherKinds
    /\ (/\ op = "plot_pt"
        /\ pc \in {"plot_out", "idle"}
        /\ outcome # "UnpicklingError"
        /\ icname \in DihedKinds) =>
          /\ genLog = SelectSeq(ICs(icname),
                                LAMBDA n : n \notin DOMAIN StoredAtStart)
          /\ ICSet(icname) \ interrupted \subseteq DOMAIN trajectories

\* generate_trajectories with skip_dihedrals wrote a store without the
\* dihedral, and plot_pt for the dihedral kind then generated and stored it.
C12_Witness ==
    /\ op = "plot_pt" /\ pc = "idle" /\ outcome = "ok"
    /\ icname = Dihed
    /\ genLog = ICs(Dihed)
    /\ ICSet(Dihed) \subseteq DOMAIN Stored
    /\ prev.op = "generate_trajectories" /\ prev.outcome = "ok"
    /\ ~prev.startFile.exists
    /\ DOMAIN prev.returned = ICSet(Bend) \cup ICSet(Bond)

\* --------------------------------------------------------------------- C14

\* The stages of run(), in the order of its body.
RunStages == <<"dihedrals", "generate", "estimate", "refine">>

\* C14: in run(), the stages are entered in the order dihedral
\* determination, generation, estimation, refinement; once
\* pert_theory.estimate has been called, generate_trajectories has returned
\* (the store file, if it had to be written, is written and is not written
\* again) and every IC estimated has its trajectory among those returned;
\* refine_cost is entered only with the table of estimate_from_pt installed
\* in the model by update_fftable.
C14_StageOrder ==
    op = "run" =>
        /\ Len(stages) \in 2..4
        /\ stages = SubSeq(RunStages, 1, Len(stages))
        /\ pc \in {"gen_check", "gen_loop"} => Len(stages) = 2
        /\ pc = "est_loop" => Len(stages) = 3
        /\ pc = "refine" => Len(stages) = 4
        /\ Len(stages) = 2 => (estLog = <<>> /\ ff = EmptyTable)
        /\ estLog # <<>> =>
              /\ trajectories = returned
              /\ Range(estLog) \subseteq DOMAIN returned
              /\ Range(genLog) \subseteq DOMAIN returned
              /\ FreshPath => (writes = 1 /\ file = Written(returned))
        /\ Len(stages) = 4 =>
              /\ ffModel.set
              /\ TableNames(ffModel.tab) = TableNames(ff)
              /\ Equilibria(ffModel.tab) = Equilibria(ff)
              /\ pc = "refine" => (ffModel.tab = ff /\ fftab = ff)

\* run() went through its four stages on a fresh cache path and returned.
C14_Witness ==
    /\ op = "run" /\ pc = "idle" /\ outcome = "ok"
    /\ stages = RunStages
    /\ FreshPath /\ writes = 1
    /\ Len(estLog) = NumBond + 1

\* --------------------------------------------------------------------- C15

\* estimate_from_pt has been entered, by the driver or by run().
EstEntered ==
    \/ op = "estimate_from_pt"
    \/ op = "run" /\ Len(stages) >= 3

\* The kind-names of a table's entries, in insertion order.
EntryNames(tab) == [j \in 1..Len(tab) |-> tab[j].name]

\* C15: throughout an estimate_from_pt call the table holds one entry for
\* each non-skipped kind the loop has passed, in the order of the passes,
\* which is ascending in the kind-names: no name was added twice, add's
\* assertion has not failed, and no entry was lost.
C15_OneEntryPerKindAscending ==
    EstEntered =>
        /\ outcome # "AssertionError"
        /\ \A i, j \in 1..Len(ff) :
              i < j => StrLess(ff[i].name, ff[j].name)
        /\ EntryNames(ff) =
              SelectSeq(SubSeq(SortedKeys, 1, kpos - 1),
                        LAMBDA k : ~Skipped(skip_dihedrals, k))

\* An estimate_from_pt without skipping returned a table of all three kinds.
C15_Witness ==
    /\ EstReturned
    /\ ~skip_dihedrals
    /\ EntryNames(ff) = <<Bend, Bond, Dihed>>

\* --------------------------------------------------------------------- C16

\* C16: whatever calls came before, cancelled or not, a plot_pt that reaches
\* its write leaves in the store file every entry the file held when the
\* call began, with the same trajectory, and has called pert_theory.generate
\* for none of them.
C16_PlotKeepsStoredEntries ==
    (PlotWritten /\ fns_traj # None) =>
        \A n \in DOMAIN StoredAtStart :
            /\ n \in DOMAIN Stored
            /\ Stored[n] = StoredAtStart[n]
            /\ n \notin Range(genLog)

\* The second of two plot_pt calls, one IC cancelled in it, kept an entry of
\* another kind that the first call had stored.
C16_Witness ==
    /\ PlotWritten /\ fns_traj # None /\ pc = "idle"
    /\ prev.op = "plot_pt"
    /\ interrupted # {}
    /\ \E n \in DOMAIN StoredAtStart : n.kind # icname /\ n \in DOMAIN Stored

\* --------------------------------------------------------------------- C17

\* C17: a plot_pt in which generations were cancelled still returns
\* normally; no cancelled IC has a trajectory; pert_theory.generate was
\* called for every IC of the kind that the store did not hold, those after
\* a cancelled one included; the store is written once if a path is
\* configured; and the ICs plotted and exported are, in order, those of the
\* kind that were not cancelled, which are those with an entry in the
\* written store.
C17_InterruptSkipsOneIC ==
    (op = "plot_pt" /\ interrupted # {}) =>
        /\ outcome \in {"running", "ok"}
        /\ interrupted \cap DOMAIN trajectories = {}
        /\ pc = "idle" =>
              /\ genLog = SelectSeq(ICs(icname),
                                    LAMBDA n : n \notin DOMAIN StoredAtStart)
              /\ plotted = SelectSeq(ICs(icname),
                                     LAMBDA n : n \notin interrupted)
              /\ fns_traj # None =>
                    /\ writes = 1
                    /\ interrupted \cap DOMAIN Stored = {}
                    /\ Range(plotted) = ICSet(icname) \cap DOMAIN Stored

\* The first bond was cancelled, the second generated, stored and plotted.
C17_Witness ==
    /\ op = "plot_pt" /\ pc = "idle" /\ outcome = "ok"
    /\ icname = Bond
    /\ interrupted = {ICName(Bond, 1)}
    /\ genLog = ICs(Bond)
    /\ ICName(Bond, 2) \in Range(plotted)
    /\ writes = 1

\* --------------------------------------------------------------------- C18

\* The kinds estimate_from_pt does not skip, in the order of its loop.
KindsToEstimate ==
    SelectSeq(SortedKeys, LAMBDA k : ~Skipped(skip_dihedrals, k))

\* C18: while estimate_from_pt runs the model's parameters change only in
\* the step that ends it normally, when every non-skipped kind is in the
\* table, and they become that table; a step that ends estimate_from_pt
\* with a failed estimate or a missing trajectory leaves them as they were;
\* every normal end makes that one update.
C18_ModelUpdateAllOrNothing ==
    [][/\ (pc = "est_loop" /\ ffModel' # ffModel) =>
             /\ pc' # "est_loop"
             /\ EntryNames(ff) = KindsToEstimate
             /\ ffModel' = [set |-> TRUE, tab |-> ff]
       /\ (/\ pc = "est_loop"
           /\ pc' = "idle"
           /\ outcome' \in {"KeyError", "InsufficientDataError",
                            "AssertionError"}) =>
             ffModel' = ffModel
       /\ (/\ pc = "est_loop"
           /\ pc' \in {"refine", "idle"}
           /\ outcome' \in {"running", "ok"}) =>
             /\ EntryNames(ff) = KindsToEstimate
             /\ ffModel' = [set |-> TRUE, tab |-> ff]]_vars

\* run() on a model without parameters: the bend kind was added, then the
\* lookup of a bond trajectory failed; the model still has no parameters.
C18_Witness ==
    /\ op = "run" /\ pc = "idle" /\ outcome = "KeyError"
    /\ EntryNames(ff) = <<Bend>>
    /\ ~ffModel.set

====
